---- MODULE Spec2Model ----
(***************************************************************************)
(* Model of Mp3_Bulk_SpeedUpperV0.4.py: the ConversionThread worker and    *)
(* the MainWindow handlers that create workers and receive their signals.  *)
(*                                                                         *)
(* Texts and paths are sequences of tokens: "d1/a.mp3" is <<"d1","a">>,    *)
(* the empty text is <<>>, a blank is the token " ".                       *)
(*                                                                         *)
(* Grain of atomicity: a worker step runs from one blocking call           *)
(* (QThread start, subprocess.run, shutil.copy2) to the next; a main       *)
(* thread step is one whole slot, its modal dialog answered inside it.     *)
(* An exception that leaves run() ends that worker (pc = "crashed"); the   *)
(* rest of the program may go on or stop, and stopping is a behaviour of   *)
(* Spec already.  restart_program (os.execl) replaces the process and is   *)
(* not modelled; the speed factor is passed through to ffmpeg unchanged    *)
(* and decides nothing, so it is not a variable.  os.makedirs of the       *)
(* preview folder, in the main thread, is taken to succeed.  The output    *)
(* folder is never a directory that holds input files.                     *)
(***************************************************************************)
EXTENDS Integers, Sequences, FiniteSets, TLC

VARIABLES
    fs,                         \* the filesystem: path -> content, existing files only
    threads,                    \* MainWindow.conversion_thread and .preview_thread
    events,                     \* signals queued to the main thread, oldest first
    selected_files,             \* MainWindow.selected_files
    input_file_path,            \* text of the QLineEdit input_file_path
    output_path,                \* text of the QLineEdit output_path
    replace_original_checkbox,  \* QCheckBox state
    btn_convert,                \* btn_convert.isEnabled()
    btn_preview,                \* btn_preview.isEnabled()
    progress_bar,               \* progress_bar.value()
    progress_detail_label,      \* <<current, total>> shown, <<>> when none
    status_label,               \* the message shown, as tokens
    preview_file,               \* MainWindow.preview_file, <<>> for None
    message_box,                \* what the last click on Preview or Convert showed
    runs,                       \* workers started so far
    edits                       \* user edits made so far

vars == <<fs, threads, events, selected_files, input_file_path, output_path,
          replace_original_checkbox, btn_convert, btn_preview, progress_bar,
          progress_detail_label, status_label, preview_file, message_box, runs,
          edits>>

\* All but the message box.
kept == <<fs, threads, events, selected_files, input_file_path, output_path,
          replace_original_checkbox, btn_convert, btn_preview, progress_bar,
          progress_detail_label, status_label, preview_file, runs, edits>>

ui == <<selected_files, input_file_path, output_path, replace_original_checkbox,
        btn_convert, btn_preview, progress_bar, progress_detail_label,
        status_label, preview_file, message_box, runs, edits>>

----
\* Bounds of the model.

MaxRuns == 2        \* workers started in one behaviour
MaxFiles == 2       \* length of a file selection
MaxEdits == 2       \* selections, edits and checkbox clicks in one behaviour

\* The files on disk when the program starts; d1/a and d2/a share a basename.
Files == { <<"d1", "a">>, <<"d1", "b">>, <<"d2", "a">> }

\* The orders in which a drop or the file dialog lists files; d1/m is a file
\* that is gone by the time a worker reaches it.
Playlists == { << <<"d1", "a">>, <<"d1", "m">>, <<"d1", "b">> >>,
               << <<"d1", "a">>, <<"d1", "b">> >>,
               << <<"d1", "a">>, <<"d2", "a">> >> }

\* A selection: the first files of a playlist.
FileLists ==
    UNION { { SubSeq(l, 1, n) : n \in { k \in 1..Len(l) : k <= MaxFiles } } :
            l \in Playlists }

\* What the user can type in the input path field.
InputTexts == { <<" ">>, <<" ", "d1", "m", " ">> }

\* What the output folder field can hold.
OutputTexts == { <<" ">>, <<"out">> }

TmpNames == <<"t1", "t2", "t3", "t4", "t5", "t6">>

----
\* Strings and paths.

RECURSIVE lstrip(_)
lstrip(t) == IF t # <<>> /\ Head(t) = " " THEN lstrip(Tail(t)) ELSE t

RECURSIVE rstrip(_)
rstrip(t) ==
    IF t # <<>> /\ t[Len(t)] = " " THEN rstrip(SubSeq(t, 1, Len(t) - 1)) ELSE t

\* str.strip()
strip(t) == rstrip(lstrip(t))

\* os.path.basename
basename(p) == IF p = <<>> THEN <<>> ELSE <<p[Len(p)]>>

\* os.path.join(folder, name)
join(folder, name) == folder \o name

\* os.path.exists
exists(fsys, p) == p \in DOMAIN fsys

\* Content of an untouched source file, and of ffmpeg's output for a content.
Original(p) == <<"orig">> \o p
atempo(c) == <<"atempo">> \o c

\* tempfile.NamedTemporaryFile(suffix='.mp3', delete=False).name: a name no
\* existing file has.
RECURSIVE FreshTmp(_, _)
FreshTmp(fsys, k) ==
    IF k > Len(TmpNames) THEN <<"tmp", "overflow">>
    ELSE IF exists(fsys, <<"tmp", TmpNames[k]>>) THEN FreshTmp(fsys, k + 1)
    ELSE <<"tmp", TmpNames[k]>>

NamedTemporaryFile(fsys) == FreshTmp(fsys, 1)

----
\* ConversionThread.

\* A signal emission or a call recorded in a worker's history.
Entry(op, i, what, cur, total, path) ==
    [op |-> op, i |-> i, what |-> what, cur |-> cur, total |-> total, path |-> path]

Emit(i, sig, cur, total, path) == Entry("emit", i, sig, cur, total, path)

\* ConversionThread.__init__: the object as constructed, not yet started.
ConversionThread(input_files, output_folder, is_preview, replace_original) ==
    [input_files |-> input_files, output_folder |-> output_folder,
     is_preview |-> is_preview, replace_original |-> replace_original,
     pc |-> "start", index |-> 0, output_file |-> <<>>, log |-> <<>>]

\* The two attributes of MainWindow that hold a worker, and the value of one
\* that was never assigned.
Slots == {"conversion_thread", "preview_thread"}
NoThread == [ConversionThread(<<>>, <<>>, FALSE, FALSE) EXCEPT !.pc = "none"]

\* The outcomes of subprocess.run(..., check=True): exit status 0, a nonzero
\* exit status, or the process could not be started.
TranscodeOutcomes == {"ok", "CalledProcessError", "OSError"}

\* except subprocess.CalledProcessError: the one exception run() handles
\* around the transcoder call.
CaughtByRun(outcome) == outcome = "CalledProcessError"

\* Mutant: the handler around shutil.copy2 is missing.
CopyErrorCaught_Missing == FALSE

\* except Exception around shutil.copy2.
CopyErrorCaught == TRUE

\* Mutant: the replace is done whatever the flag says.
ShouldReplace_IgnoresFlag(t) == ~t.is_preview

\* if self.replace_original and not self.is_preview
ShouldReplace(t) == t.replace_original /\ ~t.is_preview

\* Mutant: the 0-based index is emitted as it is.
ProgressArgs_OffByOne(index, total_files) == <<index, total_files>>

\* progress_update.emit(index + 1, total_files)
ProgressArgs(index, total_files) == <<index + 1, total_files>>

EmitProgress(t) ==
    LET a == ProgressArgs(t.index, Len(t.input_files))
    IN  Emit(t.index, "progress_update", a[1], a[2], <<>>)

\* The first position at or after j (0-based) whose file exists: the effect of
\* `if not os.path.exists(input_file): continue`.
RECURSIVE NextExisting(_, _, _)
NextExisting(files, fsys, j) ==
    IF j >= Len(files) THEN j
    ELSE IF exists(fsys, files[j + 1]) THEN j
    ELSE NextExisting(files, fsys, j + 1)

\* output_file for the file at the worker's index.
OutputFile(t, fsys, j) ==
    IF t.is_preview THEN NamedTemporaryFile(fsys)
    ELSE join(t.output_folder, basename(t.input_files[j + 1]))

\* The for loop from position j up to the next subprocess.run, or through the
\* end of run(): the worker after it.
LoopFrom(t, fsys, j) ==
    LET k == NextExisting(t.input_files, fsys, j)
    IN  IF k >= Len(t.input_files)
        THEN [t EXCEPT !.pc = "done", !.index = k, !.output_file = <<>>,
                       !.log = IF t.is_preview THEN @
                               ELSE Append(@, Emit(k, "conversion_done", 0, 0,
                                                   t.output_folder))]
        ELSE [t EXCEPT !.pc = "transcoding", !.index = k,
                       !.output_file = OutputFile(t, fsys, k),
                       !.log = Append(@, Entry("invoke", k, "ffmpeg", 0, 0,
                                               t.input_files[k + 1]))]

\* The filesystem after that stretch: NamedTemporaryFile creates its file.
FsAfterLoop(t2, fsys) ==
    IF t2.pc = "transcoding" /\ t2.is_preview
    THEN (t2.output_file :> <<>>) @@ fsys
    ELSE fsys

\* The signals of a worker that have a slot connected.
Connected(is_preview, sig) ==
    IF is_preview THEN sig = "preview_done"
    ELSE sig \in {"progress_update", "file_converted", "conversion_done"}

\* The queued slot calls for the entries a step added to the log.
Posted(w, old, new) ==
    LET added == SubSeq(new.log, Len(old.log) + 1, Len(new.log))
        sent == SelectSeq(added, LAMBDA e :
                    e.op = "emit" /\ Connected(new.is_preview, e.what))
    IN  [k \in 1..Len(sent) |-> [w |-> w, sig |-> sent[k].what,
                                 cur |-> sent[k].cur, total |-> sent[k].total,
                                 path |-> sent[k].path]]

\* One worker step: thread w becomes t2 over filesystem fsys2.
WorkerStep(w, t2, fsys2) ==
    /\ threads' = [threads EXCEPT ![w] = t2]
    /\ fs' = fsys2
    /\ events' = events \o Posted(w, threads[w], t2)
    /\ UNCHANGED ui

\* run(), from its start to the first subprocess.run: os.makedirs for a batch.
RunBegin(w) ==
    /\ threads[w].pc = "start"
    /\ \E made \in {"ok", "OSError"} :
        LET t == threads[w]
            t2 == IF ~t.is_preview /\ made = "OSError"
                  THEN [t EXCEPT !.pc = "crashed",
                                 !.log = Append(@, Entry("raise", 0, "makedirs", 0, 0, <<>>))]
                  ELSE LoopFrom(t, fs, 0)
        IN  /\ (t.is_preview => made = "ok")
            /\ WorkerStep(w, t2, FsAfterLoop(t2, fs))

\* After a transcode that succeeded, in a batch without a replace to do, or
\* after the replace: file_converted, progress_update, and on with the loop.
Converted(t, fsys) ==
    LET t1 == [t EXCEPT !.log = @ \o
                  << Emit(t.index, "file_converted", 0, 0,
                          basename(t.input_files[t.index + 1])),
                     EmitProgress(t) >>]
    IN  LoopFrom(t1, fsys, t.index + 1)

\* subprocess.run returns or raises.
TranscodeExit(w) ==
    /\ threads[w].pc = "transcoding"
    /\ \E outcome \in TranscodeOutcomes :
        LET t == threads[w]
            input_file == t.input_files[t.index + 1]
            t0 == [t EXCEPT !.log = Append(@, Entry("exit", t.index, outcome, 0, 0,
                                                    input_file))]
            fsOut == IF outcome = "ok"
                     THEN (t.output_file :> atempo(fs[input_file])) @@ fs
                     ELSE fs
            t2 == IF outcome = "ok"
                  THEN IF t.is_preview
                       THEN LoopFrom([t0 EXCEPT !.log = @ \o
                                        << Emit(t.index, "preview_done", 0, 0,
                                                t.output_file),
                                           EmitProgress(t) >>],
                                     fsOut, t.index + 1)
                       ELSE IF ShouldReplace(t)
                            THEN [t0 EXCEPT !.pc = "copying"]
                            ELSE Converted(t0, fsOut)
                  ELSE IF CaughtByRun(outcome)
                       THEN LoopFrom([t0 EXCEPT !.log = Append(@, EmitProgress(t))],
                                     fsOut, t.index + 1)
                       ELSE [t0 EXCEPT !.pc = "crashed"]
        IN  WorkerStep(w, t2, FsAfterLoop(t2, fsOut))

\* shutil.copy2(output_file, input_file) returns or raises.
CopyExit(w) ==
    /\ threads[w].pc = "copying"
    /\ \E copied \in {"ok", "OSError"} :
        LET t == threads[w]
            input_file == t.input_files[t.index + 1]
            t0 == [t EXCEPT !.log = Append(@, Entry("copy", t.index, copied, 0, 0,
                                                    input_file))]
            fsOut == IF copied = "ok"
                     THEN (input_file :> fs[t.output_file]) @@ fs
                     ELSE fs
            t2 == IF copied = "ok" \/ CopyErrorCaught
                  THEN Converted(t0, fsOut)
                  ELSE [t0 EXCEPT !.pc = "crashed"]
        IN  WorkerStep(w, t2, FsAfterLoop(t2, fsOut))

----
\* MainWindow.

\* handle_dropped_files: the slot of DropArea.files_dropped, which dropEvent
\* emits for a non-empty list only.
handle_dropped_files(files) ==
    /\ edits < MaxEdits
    /\ edits' = edits + 1
    /\ selected_files' = files
    /\ input_file_path' = IF Len(files) = 1 THEN files[1] ELSE input_file_path
    /\ status_label' = <<"file MP3 pronti per la conversione">>
    /\ UNCHANGED <<fs, threads, events, output_path, replace_original_checkbox,
                   btn_convert, btn_preview, progress_bar, progress_detail_label,
                   preview_file, message_box, runs>>

\* select_input_files, the dialog accepted with `files` selected.
select_input_files(files) ==
    /\ edits < MaxEdits
    /\ edits' = edits + 1
    /\ selected_files' = files
    /\ input_file_path' = IF Len(files) = 1 THEN files[1] ELSE input_file_path
    /\ UNCHANGED <<fs, threads, events, output_path, replace_original_checkbox,
                   btn_convert, btn_preview, progress_bar, progress_detail_label,
                   status_label, preview_file, message_box, runs>>

\* The user edits the input path field.
EditInputPath(text) ==
    /\ edits < MaxEdits
    /\ edits' = edits + 1
    /\ input_file_path' = text
    /\ UNCHANGED <<fs, threads, events, selected_files, output_path,
                   replace_original_checkbox, btn_convert, btn_preview, progress_bar,
                   progress_detail_label, status_label, preview_file, message_box,
                   runs>>

\* select_output_folder, or the user edits the output folder field.
select_output_folder(folder) ==
    /\ edits < MaxEdits
    /\ edits' = edits + 1
    /\ output_path' = folder
    /\ UNCHANGED <<fs, threads, events, selected_files, input_file_path,
                   replace_original_checkbox, btn_convert, btn_preview, progress_bar,
                   progress_detail_label, status_label, preview_file, message_box,
                   runs>>

\* The user clicks the replace checkbox.
ToggleReplace ==
    /\ edits < MaxEdits
    /\ edits' = edits + 1
    /\ replace_original_checkbox' = ~replace_original_checkbox
    /\ UNCHANGED <<fs, threads, events, selected_files, input_file_path, output_path,
                   btn_convert, btn_preview, progress_bar, progress_detail_label,
                   status_label, preview_file, message_box, runs>>

\* get_input_files: the text field first, the selection otherwise.
get_input_files ==
    LET text == strip(input_file_path)
    IN  IF text # <<>> THEN <<text>> ELSE selected_files

\* Mutant: the whole list is handed to the preview worker.
PreviewInputs_All(input_files) == input_files

\* input_files=[input_files[0]] in preview_audio.
PreviewInputs(input_files) == <<input_files[1]>>

\* btn_preview.setEnabled(False) and btn_convert.setEnabled(False): the state
\* of the button once its worker is started.
BtnPreviewWhileRunning == FALSE

\* Mutant: convert_files leaves the Convert button enabled.
BtnConvertWhileRunning_Enabled == TRUE

BtnConvertWhileRunning == FALSE

preview_folder == <<"AudioSpeedUpper_Preview">>

\* `if not input_files`, in preview_audio and in convert_files.
NoInput(input_files) == input_files = <<>>

\* Mutant: convert_files does not look at the output folder.
NoOutput_Unchecked(output_folder) == FALSE

\* `if not output_folder` in convert_files.
NoOutput(output_folder) == output_folder = <<>>

\* Mutant: the answer to the confirmation is not looked at.
Declined_Ignored(replace_original, reply) == FALSE

\* The confirmation of convert_files: asked when replace_original is set,
\* and the handler returns on the answer No.
Declined(replace_original, reply) == replace_original /\ reply = "No"

\* The texts of the two warnings.
WarnInput == "Seleziona almeno un file audio."
WarnOutput == "Specifica una cartella di output."

\* preview_audio: the Preview button's slot.
preview_audio ==
    /\ btn_preview
    /\ runs < MaxRuns
    /\ LET input_files == get_input_files
       IN  IF NoInput(input_files)
           THEN /\ message_box' = WarnInput
                /\ UNCHANGED kept
           ELSE /\ message_box' = "none"
                /\ status_label' = <<"Creazione anteprima in corso...">>
                /\ btn_preview' = BtnPreviewWhileRunning
                /\ threads' = [threads EXCEPT !["preview_thread"] =
                       ConversionThread(PreviewInputs(input_files), preview_folder,
                                        TRUE, FALSE)]
                /\ runs' = runs + 1
                /\ UNCHANGED edits
                /\ UNCHANGED <<fs, events, selected_files, input_file_path,
                               output_path, replace_original_checkbox, btn_convert,
                               progress_bar, progress_detail_label, preview_file>>

\* convert_files: the Convert button's slot; `reply` is the user's answer to
\* the confirmation dialog, asked only when the checkbox is set.  message_box
\* records the QMessageBox the handler showed: a warning, or the confirmation
\* with its answer, or "none".
convert_files(reply) ==
    /\ btn_convert
    /\ runs < MaxRuns
    /\ LET input_files == get_input_files
           output_folder == strip(output_path)
           replace_original == replace_original_checkbox
       IN  IF NoInput(input_files)
           THEN /\ message_box' = WarnInput
                /\ UNCHANGED kept
           ELSE IF NoOutput(output_folder)
           THEN /\ message_box' = WarnOutput
                /\ UNCHANGED kept
           ELSE IF Declined(replace_original, reply)
           THEN /\ message_box' = reply
                /\ UNCHANGED kept
           ELSE /\ message_box' = IF replace_original THEN reply ELSE "none"
                /\ progress_bar' = 0
                /\ progress_detail_label' = <<>>
                /\ btn_convert' = BtnConvertWhileRunning
                /\ status_label' = <<"Conversione in corso...">>
                /\ threads' = [threads EXCEPT !["conversion_thread"] =
                       ConversionThread(input_files, output_folder, FALSE,
                                        replace_original)]
                /\ runs' = runs + 1
                /\ UNCHANGED edits
                /\ UNCHANGED <<fs, events, selected_files, input_file_path,
                               output_path, replace_original_checkbox, btn_preview,
                               preview_file>>

\* Mutant: the count is scaled and not divided by the total.
percentage_Undivided(current, total) == current * 100

\* percentage = int((current / total) * 100) if total > 0 else 0.  The
\* quotient is a float in the source; for the totals of this model the
\* truncated product is the integer quotient below.
percentage(current, total) ==
    IF total > 0 THEN (current * 100) \div total ELSE 0

\* update_progress: the slot of progress_update.
update_progress(current, total) ==
    /\ progress_bar' = percentage(current, total)
    /\ progress_detail_label' = <<current, total>>
    /\ UNCHANGED <<status_label, btn_convert, btn_preview, preview_file>>

\* update_file_progress: the slot of file_converted.
update_file_progress(filename) ==
    /\ status_label' = <<"Convertito:">> \o filename
    /\ UNCHANGED <<progress_bar, progress_detail_label, btn_convert, btn_preview,
                   preview_file>>

\* handle_conversion_done: the slot of conversion_done.
handle_conversion_done(output_folder) ==
    /\ btn_convert' = TRUE
    /\ status_label' =
          IF replace_original_checkbox
          THEN <<"Conversione completata! I file originali sono stati sostituiti.">>
          ELSE <<"Conversione completata!">>
    /\ UNCHANGED <<progress_bar, progress_detail_label, btn_preview, preview_file>>

\* open_preview: the slot of preview_done.
open_preview(file) ==
    /\ preview_file' = file
    /\ status_label' = <<"Anteprima aperta nel player predefinito:">> \o basename(file)
    /\ btn_preview' = TRUE
    /\ UNCHANGED <<progress_bar, progress_detail_label, btn_convert>>

\* The main thread's event loop runs the slot of the oldest queued signal.
Deliver ==
    /\ events # <<>>
    /\ LET e == Head(events)
       IN  CASE e.sig = "progress_update" -> update_progress(e.cur, e.total)
             [] e.sig = "file_converted" -> update_file_progress(e.path)
             [] e.sig = "conversion_done" -> handle_conversion_done(e.path)
             [] e.sig = "preview_done" -> open_preview(e.path)
    /\ events' = Tail(events)
    /\ UNCHANGED <<fs, threads, selected_files, input_file_path, output_path,
                   replace_original_checkbox, message_box, runs, edits>>

----
\* The program.

Init ==
    /\ fs = [p \in Files |-> Original(p)]
    /\ threads = [w \in Slots |-> NoThread]
    /\ events = <<>>
    /\ selected_files = <<>>
    /\ input_file_path = <<>>
    /\ output_path = <<"out">>
    /\ replace_original_checkbox = FALSE
    /\ btn_convert = TRUE
    /\ btn_preview = TRUE
    /\ progress_bar = 0
    /\ progress_detail_label = <<>>
    /\ status_label = <<>>
    /\ preview_file = <<>>
    /\ message_box = "none"
    /\ runs = 0
    /\ edits = 0

Next ==
    \/ \E files \in FileLists : handle_dropped_files(files)
    \/ \E files \in FileLists : select_input_files(files)
    \/ \E text \in InputTexts : EditInputPath(text)
    \/ \E folder \in OutputTexts : select_output_folder(folder)
    \/ ToggleReplace
    \/ preview_audio
    \/ \E reply \in {"Yes", "No"} : convert_files(reply)
    \/ Deliver
    \/ \E w \in Slots : RunBegin(w)
    \/ \E w \in Slots : TranscodeExit(w)
    \/ \E w \in Slots : CopyExit(w)

Spec == Init /\ [][Next]_vars

----
\* Reading a worker's history.

Batch == threads["conversion_thread"]
Preview == threads["preview_thread"]

Active(t) == t.pc \in {"start", "transcoding", "copying"}
Terminated(t) == t.pc \in {"done", "crashed"}

Emits(t, sig) == SelectSeq(t.log, LAMBDA e : e.op = "emit" /\ e.what = sig)

\* The positions of the log with operation op on the file at index i.
At(t, op, i) == { k \in 1..Len(t.log) : t.log[k].op = op /\ t.log[k].i = i }

Indices(t) == 0..(Len(t.input_files) - 1)

\* The transcoder was run on file i and did not succeed.
TranscodeFailed(t, i) == \E k \in At(t, "exit", i) : t.log[k].what # "ok"

AllExist(t) == \A i \in Indices(t) : exists(fs, t.input_files[i + 1])

----
\* C1: in a Batch run, a transcoder failure on one file (a nonzero exit or a
\* process error) aborts nothing: that file is not retried, the transcoder
\* is still run on every later existing file, and the run emits
\* conversion_done.  Stated of a worker that has stopped.
C1_FailureDoesNotAbortRun ==
    Terminated(Batch) =>
        \A i \in Indices(Batch) :
            TranscodeFailed(Batch, i) =>
                /\ Cardinality(At(Batch, "invoke", i)) = 1
                /\ \A j \in Indices(Batch) :
                      (j > i /\ exists(fs, Batch.input_files[j + 1]))
                          => At(Batch, "invoke", j) # {}
                /\ Len(Emits(Batch, "conversion_done")) = 1

\* A worker is at the copy over the original rightly: it is the Batch worker,
\* replace_original is set, and the last thing it did was a successful
\* transcode of the file at its index.
RightlyCopying(w, t) ==
    /\ w = "conversion_thread"
    /\ ~t.is_preview
    /\ t.replace_original
    /\ t.log # <<>>
    /\ t.log[Len(t.log)] =
          Entry("exit", t.index, "ok", 0, 0, t.input_files[t.index + 1])

\* C2: the copy over an original is attempted only in a Batch run with
\* replace_original set, right after a successful transcode of that very
\* file; and the content of an original changes by that copy alone, to the
\* output of that transcode.  So never in a Preview run, never before the
\* transcode, never for a failed or skipped file.
C2_ReplaceOnlyAfterSuccess ==
    [][/\ \A w \in Slots :
            threads'[w].pc = "copying" => RightlyCopying(w, threads'[w])
       /\ \A p \in Files :
            fs'[p] # fs[p] =>
                /\ Batch.pc = "copying"
                /\ RightlyCopying("conversion_thread", Batch)
                /\ Batch.input_files[Batch.index + 1] = p
                /\ fs'[p] = fs[Batch.output_file]
                /\ Preview.pc # "copying"]_vars

\* C2 witness: an original has been replaced by its converted output.
C2_Witness ==
    \E p \in Files : fs[p] = atempo(Original(p))

\* C3: a Batch run that was started and has stopped emitted conversion_done
\* exactly once, as the last thing it did.
C3_ExactlyOneRunComplete ==
    Terminated(Batch) =>
        /\ Len(Emits(Batch, "conversion_done")) = 1
        /\ Batch.log[Len(Batch.log)].what = "conversion_done"

\* C4: a Batch run that ran to its end emitted one progress update per input,
\* 1/N .. N/N, missing inputs included, and a Skipped event for each missing
\* input.
C4_ProgressAfterEveryFile ==
    (Batch.pc = "done") =>
        /\ Len(Emits(Batch, "progress_update")) = Len(Batch.input_files)
        /\ \A i \in Indices(Batch) :
              ~exists(fs, Batch.input_files[i + 1]) =>
                  \E k \in At(Batch, "emit", i) : Batch.log[k].what = "file_skipped"

\* C5: in a Batch run whose N inputs all exist, the progress updates emitted
\* so far are (1,N), (2,N), ... in this order, and all N of them once the run
\* has reached its end, whatever the transcoder's exit statuses were.
C5_ProgressCountsAllExisting ==
    (Batch.pc # "none" /\ AllExist(Batch)) =>
        LET sent == Emits(Batch, "progress_update")
            N == Len(Batch.input_files)
        IN  /\ Len(sent) <= N
            /\ \A k \in 1..Len(sent) : sent[k].cur = k /\ sent[k].total = N
            /\ (Batch.pc = "done" => Len(sent) = N)

\* C5 witness: a finished Batch run over two existing files, one transcode
\* failed with a nonzero exit and one succeeded.
C5_Witness ==
    /\ Batch.pc = "done"
    /\ Len(Batch.input_files) = 2
    /\ AllExist(Batch)
    /\ \E k \in 1..Len(Batch.log) : Batch.log[k].what = "CalledProcessError"
    /\ \E k \in 1..Len(Batch.log) :
          Batch.log[k].op = "exit" /\ Batch.log[k].what = "ok"

\* C6: a Preview run that has stopped emitted exactly one signal that ends
\* it for the caller: preview_done or a failure signal.
C6_PreviewEndsWithOneSignal ==
    Terminated(Preview) =>
        Len(Emits(Preview, "preview_done")) + Len(Emits(Preview, "preview_failed")) = 1

\* C7: in a Batch run with replace_original, a file whose transcode failed is
\* not copied over, gets no file_converted, and gets a Failed event.
C7_FailedTranscodeReported ==
    (Batch.replace_original /\ Terminated(Batch)) =>
        \A i \in Indices(Batch) :
            TranscodeFailed(Batch, i) =>
                /\ At(Batch, "copy", i) = {}
                /\ \A k \in At(Batch, "emit", i) : Batch.log[k].what # "file_converted"
                /\ \E k \in At(Batch, "emit", i) : Batch.log[k].what = "file_failed"

\* The part of C7 about the original: no copy and no file_converted for a
\* file whose transcode failed, and its content is what it was.
FailedTranscodeLeavesOriginal ==
    \A i \in Indices(Batch) :
        TranscodeFailed(Batch, i) =>
            /\ At(Batch, "copy", i) = {}
            /\ \A k \in At(Batch, "emit", i) : Batch.log[k].what # "file_converted"

\* C8: when the copy over the original raises, the run goes on in the same
\* step: file_converted and the progress update of that file are emitted,
\* then the next existing file is handed to the transcoder (or the run
\* completes), and the output file is still there.
C8_CopyErrorIsNotFatal ==
    \A k \in 1..Len(Batch.log) :
        (Batch.log[k].op = "copy" /\ Batch.log[k].what # "ok") =>
            LET i == Batch.log[k].i
                N == Len(Batch.input_files)
                input_file == Batch.input_files[i + 1]
                next == NextExisting(Batch.input_files, fs, i + 1)
            IN  /\ Len(Batch.log) >= k + 3
                /\ Batch.log[k + 1] = Emit(i, "file_converted", 0, 0, basename(input_file))
                /\ Batch.log[k + 2] = Emit(i, "progress_update", i + 1, N, <<>>)
                /\ IF next < N
                   THEN Batch.log[k + 3] =
                            Entry("invoke", next, "ffmpeg", 0, 0, Batch.input_files[next + 1])
                   ELSE Batch.log[k + 3] =
                            Emit(N, "conversion_done", 0, 0, Batch.output_folder)
                /\ exists(fs, join(Batch.output_folder, basename(input_file)))

\* C8 witness: the copy failed on the first of two files and the second was
\* handed to the transcoder.
C8_Witness ==
    /\ Len(Batch.log) >= 6
    /\ Batch.log[3].op = "copy" /\ Batch.log[3].what = "OSError"
    /\ Batch.log[6].op = "invoke" /\ Batch.log[6].i = 1

\* C9: a worker is started in a slot only when the worker that slot held is no
\* longer active, so no two runs of one kind are active together.
C9_OneRunPerKind ==
    [][runs' # runs =>
          \A w \in Slots :
              (threads'[w].pc = "start" /\ (threads'[w] # threads[w] \/ threads' = threads))
                  => ~Active(threads[w])]_vars

\* C9 witness: a second Batch run was started, after the first one had ended
\* and left its output, and the Convert button is disabled again.
C9_Witness ==
    /\ runs = 2
    /\ Batch.pc = "start"
    /\ Preview.pc = "none"
    /\ ~btn_convert
    /\ \E p \in DOMAIN fs : p[1] = "out"

\* C10: a Preview worker is given the first of the supplied inputs alone,
\* runs the transcoder at most once, on that file, and does nothing after
\* preview_done but end.
C10_PreviewProcessesOnlyFirst ==
    [][/\ (runs' # runs /\ threads'["preview_thread"] # threads["preview_thread"])
            => threads'["preview_thread"].input_files = <<get_input_files[1]>>
       /\ LET t == threads'["preview_thread"]
              calls == { k \in 1..Len(t.log) : t.log[k].op = "invoke" }
          IN  /\ Cardinality(calls) <= 1
              /\ \A k \in calls : t.log[k].i = 0 /\ t.log[k].path = t.input_files[1]
              /\ Len(Emits(t, "preview_done")) = 1 => t.pc = "done"]_vars

\* C10 witness: a Preview run over a selection of two files has emitted
\* preview_done.
C10_Witness ==
    /\ Len(selected_files) = 2
    /\ strip(input_file_path) = <<>>
    /\ Preview.pc = "done"
    /\ Len(Emits(Preview, "preview_done")) = 1

\* C11: a Batch run can be cancelled between files: once a file has been
\* handled, the worker reads the cancellation request before it runs the
\* transcoder on the next one, so that a request made after file 1 keeps
\* files 2 and 3 from the transcoder and ends the run with run_cancelled.
C11_CancelBetweenFiles ==
    \A k \in 1..Len(Batch.log) :
        (Batch.log[k].op = "invoke" /\ \E j \in 1..(k - 1) : Batch.log[j].op = "exit")
            => Batch.log[k - 1] = Entry("read", Batch.log[k].i, "cancel_requested",
                                        0, 0, <<>>)

\* The signals of worker w still queued to the main thread.
Pending(w) == SelectSeq(events, LAMBDA e : e.w = w)

\* C12: when os.makedirs of the output folder fails, the Batch run hands no
\* file to the transcoder and emits one terminal signal (conversion_done or
\* a failure signal), and once the main thread has received the run's
\* signals the Convert button is enabled again.
C12_FatalFailureSurfaced ==
    (\E k \in 1..Len(Batch.log) :
        Batch.log[k].op = "raise" /\ Batch.log[k].what = "makedirs")
    => /\ \A k \in 1..Len(Batch.log) : Batch.log[k].op # "invoke"
       /\ Len(Emits(Batch, "conversion_done")) + Len(Emits(Batch, "run_failed")) = 1
       /\ Pending("conversion_thread") = <<>> => btn_convert

\* A step that is a click on Preview or Convert: it starts a worker or shows
\* a message box.
Click == runs' # runs \/ message_box' # message_box

\* C13: a click on Convert or Preview with no input file shows the warning
\* and changes nothing else; a click on Convert with an empty or blank output
\* folder shows the warning and changes nothing else, and with such a folder
\* no click starts a Batch worker, writes a file, queues a signal or touches
\* the progress display or the Convert button.  So every worker there is has
\* an input file, and the Batch worker an output folder.
C13_ValidationStartsNothing ==
    [][/\ Click =>
            /\ get_input_files = <<>> =>
                  (message_box' = WarnInput /\ UNCHANGED kept)
            /\ strip(output_path) = <<>> =>
                  /\ threads'["conversion_thread"] = threads["conversion_thread"]
                  /\ UNCHANGED <<fs, events, btn_convert, progress_bar,
                                 progress_detail_label>>
                  /\ message_box' \in {WarnInput, WarnOutput, "none"}
                  /\ message_box' # "none" => UNCHANGED kept
       /\ \A w \in Slots :
            threads'[w].pc # "none" => threads'[w].input_files # <<>>
       /\ threads'["conversion_thread"].pc # "none"
            => strip(threads'["conversion_thread"].output_folder) # <<>>]_vars

\* C13 witness: Convert was clicked with input files and a blank output
\* folder: the warning was shown and no Batch worker exists.
C13_Witness ==
    /\ message_box = WarnOutput
    /\ get_input_files # <<>>
    /\ output_path = <<" ">>
    /\ Batch.pc = "none"
    /\ btn_convert

\* C14: the step that starts a Batch worker with replace_original set is a
\* click on Convert with the checkbox set and the confirmation answered Yes;
\* a click answered No changes nothing but the record of the box: no worker,
\* no file, no progress display, no button; and no step of a worker shows a
\* message box.
C14_ReplaceNeedsConfirmation ==
    [][/\ (runs' # runs /\ btn_convert /\ ~btn_convert'
             /\ threads'["conversion_thread"].replace_original)
            => (replace_original_checkbox /\ message_box' = "Yes")
       /\ (Click /\ message_box' = "No")
            => (replace_original_checkbox /\ UNCHANGED kept)
       /\ (runs' = runs /\ threads' # threads) => message_box' = message_box]_vars

\* C14 witness: Convert was clicked with the checkbox set, input files and an
\* output folder, and the confirmation was answered No: there is no Batch
\* worker and every file is as it was.
C14_Witness ==
    /\ message_box = "No"
    /\ replace_original_checkbox
    /\ get_input_files # <<>>
    /\ strip(output_path) # <<>>
    /\ Batch.pc = "none"
    /\ btn_convert
    /\ fs = [p \in Files |-> Original(p)]

\* C15: in every state, the counts of the progress updates a worker has
\* emitted are non-decreasing, at least 0 and at most the total, which is the
\* number of its input files; the progress bar shows a value in 0..100; and
\* the percentage computed for a total of 0 is 0.
C15_ProgressWithinTotal ==
    /\ \A w \in Slots :
          LET sent == Emits(threads[w], "progress_update")
          IN  \A k \in 1..Len(sent) :
                  /\ sent[k].total = Len(threads[w].input_files)
                  /\ sent[k].cur \in 0..sent[k].total
                  /\ k > 1 => sent[k - 1].cur <= sent[k].cur
    /\ progress_bar \in 0..100
    /\ progress_detail_label # <<>> =>
          progress_detail_label[1] \in 0..progress_detail_label[2]
    /\ \A total \in 0..(MaxFiles + 1) : \A current \in 0..total :
          /\ percentage(current, total) \in 0..100
          /\ total = 0 => percentage(current, total) = 0

\* C15 witness: the bar shows 50 for 1 of 2 in a Batch run whose first
\* transcode failed with a nonzero exit.
C15_Witness ==
    /\ progress_bar = 50
    /\ progress_detail_label = <<1, 2>>
    /\ TranscodeFailed(Batch, 0)

\* C16: an accepted Preview request leads to the Preview button enabled
\* again.  open_preview is the one place that enables it, so: once the
\* Preview worker has stopped and the main thread has received all it
\* emitted, the button is enabled, whether the transcoder succeeded or
\* failed or the input file was missing.
C16_PreviewButtonComesBack ==
    (Terminated(Preview) /\ Pending("preview_thread") = <<>>) => btn_preview

\* C17: when files have been selected by drop or dialog and the path field
\* holds nothing the user typed, the worker a click starts is given the last
\* selection: all of it for Convert, its first file for Preview.
C17_UsesLastSelection ==
    [][(runs' # runs /\ selected_files # <<>> /\ input_file_path \notin InputTexts)
          => /\ (btn_convert /\ ~btn_convert')
                  => threads'["conversion_thread"].input_files = selected_files
             /\ (btn_preview /\ ~btn_preview')
                  => threads'["preview_thread"].input_files = <<selected_files[1]>>]_vars

\* The files in a folder.
InFolder(folder) ==
    { p \in DOMAIN fs : Len(p) = Len(folder) + 1 /\ SubSeq(p, 1, Len(folder)) = folder }

\* C18: in a Batch run over K distinct files that all converted, the output
\* paths of different inputs differ, and at the end of the run the output
\* folder holds K files at least.
C18_DistinctOutputs ==
    (/\ Batch.pc = "done"
     /\ \A i, j \in Indices(Batch) :
            i # j => Batch.input_files[i + 1] # Batch.input_files[j + 1]
     /\ \A i \in Indices(Batch) :
            \E k \in At(Batch, "exit", i) : Batch.log[k].what = "ok")
    => /\ \A i, j \in Indices(Batch) :
            i # j => OutputFile(Batch, fs, i) # OutputFile(Batch, fs, j)
       /\ Cardinality(InFolder(Batch.output_folder)) >= Len(Batch.input_files)

\* C19: the completion message shown for a Batch run says that the originals
\* were replaced exactly when that run was started with replace_original,
\* whatever was done to the checkbox while it ran.  While a completion
\* message is shown, the Batch slot holds the run that it is about.
C19_StatusReflectsJob ==
    LET replaced == <<"Conversione completata! I file originali sono stati sostituiti.">>
        completed == <<"Conversione completata!">>
    IN  status_label \in {replaced, completed} =>
            (status_label = replaced <=> Batch.replace_original)

====
